---- MODULE Spec2Model ----
(***************************************************************************)
(* Model of cmake/redirect.py: a command-line helper that runs one child   *)
(* process with its standard streams redirected to files.                  *)
(*                                                                         *)
(* The script is a single straight-line sequence; every statement group    *)
(* that can fail or that changes the file system is one action, and pc     *)
(* records the position in the script.                                     *)
(***************************************************************************)
EXTENDS Integers, Sequences, FiniteSets, TLC

VARIABLES
    argv,        \* sys.argv[1:], the command line of this run
    fs0,         \* the file system when the run started
    fs,          \* the file system now: path -> [exists, data, denied]
    pc,          \* position in the script
    args,        \* the argparse namespace (line 14)
    stdin,       \* <<>> for None, <<text>> for the str read at line 18
    stdout,      \* <<>> for None, <<handle>> for the file object of line 23
    stderr,      \* <<>> for None, <<handle>> for the file object of line 28
    childState,  \* "none", "running", "exited", "signalled"
    childArgv,   \* the argument vector the child was spawned with
    childStdin,  \* <<>> when inherited, <<text>> when supplied
    childOut,    \* every byte the child wrote to its standard output
    childErr,    \* every byte the child wrote to its standard error
    returncode,  \* status.returncode
    failed,      \* which statement raised, "none" when none did
    exitStatus   \* the exit status the caller of the tool observes

vars == <<argv, fs0, fs, pc, args, stdin, stdout, stderr, childState,
          childArgv, childStdin, childOut, childErr, returncode, failed,
          exitStatus>>

-----------------------------------------------------------------------------
(* Bounds *)

MaxArgv == 3
MaxWrite == 2

-----------------------------------------------------------------------------
(* Values *)

None == "None"

\* Python truthiness of an optional string: None and "" are both false.
Truthy(p) == p # None /\ p # ""

OptionStrings == {"--in", "--out", "--err"}
HelpStrings == {"-h"}
\* every token of the model that starts with '-' and is longer than one
\* character; argparse classes such a token as an option string ('O')
DashTokens == OptionStrings \cup HelpStrings \cup {"-x"}
Tokens == DashTokens \cup {"--", "f", ""}

Bytes == {1, 2}

Cwd == "/cwd"

\* pathlib.Path(p).absolute(): an absolute path is returned as it is, a
\* relative one is joined to the current directory (Path("") is ".").
absolute(p) ==
    IF p = "/c" THEN p
    ELSE IF p = "" THEN Cwd
    ELSE Cwd \o "/" \o p

dest(opt) ==
    IF opt = "--in" THEN "in_file"
    ELSE IF opt = "--out" THEN "out_file"
    ELSE "err_file"

\* argparse's pattern letter of one token that precedes any "--"
ArgClass(t) ==
    IF t = "--" THEN "-"
    ELSE IF t \in DashTokens THEN "O"
    ELSE "A"

EmptyNamespace ==
    [in_file |-> None, out_file |-> None, err_file |-> None,
     command |-> None, arguments |-> <<>>]

\* a parser that reports nothing and hands back the defaults
ParserExitIgnored(code) == [ok |-> TRUE, code |-> 0, ns |-> EmptyNamespace]

ParserExit(code) == [ok |-> FALSE, code |-> code, ns |-> EmptyNamespace]

\* both positionals are matched at once: command takes the token (and the
\* first "--" next to it, which argparse then deletes), arguments the rest
Positionals(ns, cmd, rest, extras) ==
    IF extras THEN ParserExit(2)
    ELSE [ok |-> TRUE, code |-> 0,
          ns |-> [ns EXCEPT !.command = absolute(cmd), !.arguments = rest]]

rest_from(s, i) == SubSeq(s, i, Len(s))

RECURSIVE consume(_, _, _, _)
consume(a, i, ns, extras) ==
    IF i > Len(a) THEN ParserExit(2)
    ELSE IF a[i] = "--" THEN
        IF i + 1 > Len(a) THEN ParserExit(2)
        ELSE Positionals(ns, a[i + 1], rest_from(a, i + 2), extras)
    ELSE IF a[i] \in OptionStrings THEN
        IF i + 1 <= Len(a) /\ ArgClass(a[i + 1]) = "A"
        THEN consume(a, i + 2, [ns EXCEPT ![dest(a[i])] = a[i + 1]], extras)
        ELSE ParserExit(2)
    ELSE IF a[i] \in HelpStrings THEN ParserExit(0)
    ELSE IF ArgClass(a[i]) = "O" THEN consume(a, i + 1, ns, TRUE)
    ELSE IF i + 1 <= Len(a) /\ a[i + 1] = "--"
        THEN Positionals(ns, a[i], rest_from(a, i + 2), extras)
        ELSE Positionals(ns, a[i], rest_from(a, i + 1), extras)

parse_args(a) == consume(a, 1, EmptyNamespace, FALSE)

-----------------------------------------------------------------------------
(* The environment: files, handles and the child *)

File(exists, data, denied) ==
    [exists |-> exists, data |-> data, denied |-> denied]

Missing == File(FALSE, <<>>, FALSE)

\* the states a file can be in when the run starts; a denied file can be
\* neither read nor created nor written (permissions, unwritable directory)
FStates == {Missing, File(TRUE, <<>>, FALSE), File(TRUE, <<13, 10, 65>>, FALSE),
            File(TRUE, <<65>>, TRUE)}
GStates == {Missing, File(TRUE, <<65>>, FALSE), File(FALSE, <<>>, TRUE)}

CanRead(fsys, p) == fsys[p].exists /\ ~fsys[p].denied
CanWrite(fsys, p) == ~fsys[p].denied

\* text mode of open(): universal newlines turn "\r\n" and "\r" into "\n"
RECURSIVE universal_newlines(_)
universal_newlines(d) ==
    IF d = <<>> THEN <<>>
    ELSE IF d[1] = 13 THEN
        IF Len(d) >= 2 /\ d[2] = 10
        THEN <<10>> \o universal_newlines(rest_from(d, 3))
        ELSE <<10>> \o universal_newlines(rest_from(d, 2))
    ELSE <<d[1]>> \o universal_newlines(rest_from(d, 2))

Handle(p) == [path |-> p, pos |-> 0, closed |-> FALSE]

\* a file opened without truncation keeps what it held
open_keep(fsys, p) == [fsys EXCEPT ![p] = File(TRUE, fsys[p].data, FALSE)]

\* open(p, "w"): the file is created or truncated
open_w(fsys, p) == [fsys EXCEPT ![p] = File(TRUE, <<>>, FALSE)]

\* bytes d with byte b stored at offset pos (a gap is filled with zeros)
RECURSIVE store(_, _, _)
store(d, pos, b) ==
    IF pos < Len(d) THEN [d EXCEPT ![pos + 1] = b]
    ELSE IF pos = Len(d) THEN Append(d, b)
    ELSE store(Append(d, 0), pos, b)

\* one write(2) of byte b through the open file description h
write(fsys, h, b) ==
    [fsys EXCEPT ![h.path].data = store(fsys[h.path].data, h.pos, b)]

\* descriptor 2 merged into descriptor 1 whenever the latter is redirected
popen_stderr_merged(so, se) == IF so # <<>> THEN so ELSE se

\* the file objects Popen connects to the child's descriptors 1 and 2
popen_stdout(so, se) == so
popen_stderr(so, se) == se

\* a tool that only reports whether the child succeeded
sys_exit_flag(n) == IF n = 0 THEN 0 ELSE 1

\* os.sys.exit(n): the kernel keeps the low eight bits of the status
sys_exit(n) == n % 256

Close(h) == IF h = <<>> THEN h ELSE <<[h[1] EXCEPT !.closed = TRUE]>>
IsOpen(h) == h # <<>> /\ ~h[1].closed

-----------------------------------------------------------------------------
(* Command lines *)

FlagPart(flag, v) == IF v = None THEN <<>> ELSE <<flag, v>>

Commands == {<<"f">>, <<"/c", "--out", "g">>}

\* the usage line: [--in FILE] [--out FILE] [--err FILE] COMMAND [ARG ...]
UsageArgv ==
    {FlagPart("--in", i) \o FlagPart("--out", o) \o FlagPart("--err", e) \o c :
        i \in {None, "", "f"}, o \in {None, "", "f", "g"},
        e \in {None, "", "f", "g"}, c \in Commands}

\* every command line of at most MaxArgv tokens
ShortArgv == UNION {[1..n -> Tokens] : n \in 0..MaxArgv}

Init ==
    /\ argv \in UsageArgv \cup ShortArgv
    /\ fs0 \in [f : FStates, g : GStates]
    /\ fs = fs0
    /\ pc = "parse"
    /\ args = EmptyNamespace
    /\ stdin = <<>>
    /\ stdout = <<>>
    /\ stderr = <<>>
    /\ childState = "none"
    /\ childArgv = <<>>
    /\ childStdin = <<>>
    /\ childOut = <<>>
    /\ childErr = <<>>
    /\ returncode = 0
    /\ failed = "none"
    /\ exitStatus = 0

-----------------------------------------------------------------------------
(* The script *)

\* an exception nobody catches: traceback, exit status 1
Raise(what) ==
    /\ failed' = what
    /\ pc' = "done"
    /\ exitStatus' = 1

\* line 14
ParseArgs ==
    /\ pc = "parse"
    /\ LET r == parse_args(argv) IN
        IF r.ok
        THEN /\ args' = r.ns
             /\ pc' = "in"
             /\ UNCHANGED <<failed, exitStatus>>
        ELSE /\ pc' = "done"
             /\ failed' = "argparse"
             /\ exitStatus' = r.code
             /\ UNCHANGED args
    /\ UNCHANGED <<argv, fs0, fs, stdin, stdout, stderr, childState, childArgv,
                   childStdin, childOut, childErr, returncode>>

\* lines 16-20
OpenIn ==
    /\ pc = "in"
    /\ IF ~Truthy(args.in_file)
       THEN /\ stdin' = <<>>
            /\ pc' = "out"
            /\ UNCHANGED <<failed, exitStatus>>
       ELSE IF CanRead(fs, args.in_file)
       THEN /\ stdin' = <<universal_newlines(fs[args.in_file].data)>>
            /\ pc' = "out"
            /\ UNCHANGED <<failed, exitStatus>>
       ELSE /\ Raise("in")
            /\ UNCHANGED stdin
    /\ UNCHANGED <<argv, fs0, fs, args, stdout, stderr, childState, childArgv,
                   childStdin, childOut, childErr, returncode>>

\* the error file opened before the output file
OpenOutAfterErr ==
    /\ pc = "out"
    /\ IF ~Truthy(args.out_file)
       THEN /\ stdout' = <<>>
            /\ pc' = "err"
            /\ UNCHANGED <<fs, failed, exitStatus>>
       ELSE IF CanWrite(fs, args.out_file)
       THEN /\ fs' = open_w(fs, args.out_file)
            /\ stdout' = <<Handle(args.out_file)>>
            /\ pc' = "err"
            /\ UNCHANGED <<failed, exitStatus>>
       ELSE /\ Raise("out")
            /\ fs' = IF Truthy(args.err_file) /\ CanWrite(fs, args.err_file)
                     THEN open_w(fs, args.err_file) ELSE fs
            /\ UNCHANGED stdout
    /\ UNCHANGED <<argv, fs0, args, stdin, stderr, childState, childArgv,
                   childStdin, childOut, childErr, returncode>>

\* lines 22-25
OpenOut ==
    /\ pc = "out"
    /\ IF ~Truthy(args.out_file)
       THEN /\ stdout' = <<>>
            /\ pc' = "err"
            /\ UNCHANGED <<fs, failed, exitStatus>>
       ELSE IF CanWrite(fs, args.out_file)
       THEN /\ fs' = open_w(fs, args.out_file)
            /\ stdout' = <<Handle(args.out_file)>>
            /\ pc' = "err"
            /\ UNCHANGED <<failed, exitStatus>>
       ELSE /\ Raise("out")
            /\ UNCHANGED <<fs, stdout>>
    /\ UNCHANGED <<argv, fs0, args, stdin, stderr, childState, childArgv,
                   childStdin, childOut, childErr, returncode>>

\* a failed open of the error file that is swallowed
OpenErrIgnored ==
    /\ pc = "err"
    /\ IF ~Truthy(args.err_file)
       THEN /\ stderr' = <<>>
            /\ pc' = "run"
            /\ UNCHANGED <<fs, failed, exitStatus>>
       ELSE IF CanWrite(fs, args.err_file)
       THEN /\ fs' = open_w(fs, args.err_file)
            /\ stderr' = <<Handle(args.err_file)>>
            /\ pc' = "run"
            /\ UNCHANGED <<failed, exitStatus>>
       ELSE /\ failed' = "err"
            /\ pc' = "run"
            /\ UNCHANGED <<fs, stderr, exitStatus>>
    /\ UNCHANGED <<argv, fs0, args, stdin, stdout, childState, childArgv,
                   childStdin, childOut, childErr, returncode>>

\* lines 27-30
OpenErr ==
    /\ pc = "err"
    /\ IF ~Truthy(args.err_file)
       THEN /\ stderr' = <<>>
            /\ pc' = "run"
            /\ UNCHANGED <<fs, failed, exitStatus>>
       ELSE IF CanWrite(fs, args.err_file)
       THEN /\ fs' = open_w(fs, args.err_file)
            /\ stderr' = <<Handle(args.err_file)>>
            /\ pc' = "run"
            /\ UNCHANGED <<failed, exitStatus>>
       ELSE /\ Raise("err")
            /\ UNCHANGED <<fs, stderr>>
    /\ UNCHANGED <<argv, fs0, args, stdin, stdout, childState, childArgv,
                   childStdin, childOut, childErr, returncode>>

\* line 32, Popen: stdin must be None, a descriptor or an object with
\* fileno(); the str read at line 18 has none and Popen raises
\* AttributeError before it forks.  Otherwise the launch succeeds, or fails
\* with OSError when the command is missing or not executable.
Run ==
    /\ pc = "run"
    /\ \/ /\ stdin # <<>>
          /\ Raise("stdin")
          /\ UNCHANGED <<childState, childArgv, childStdin>>
       \/ /\ stdin = <<>>
          /\ Raise("launch")
          /\ UNCHANGED <<childState, childArgv, childStdin>>
       \/ /\ stdin = <<>>
          /\ childState' = "running"
          /\ childArgv' = <<args.command>> \o args.arguments
          /\ childStdin' = stdin
          /\ pc' = "wait"
          /\ UNCHANGED <<failed, exitStatus>>
    /\ UNCHANGED <<argv, fs0, fs, args, stdin, stdout, stderr, childOut,
                   childErr, returncode>>

\* the child writes one byte to descriptor 1; the descriptor shares the
\* file offset of the object opened at line 23
ChildWriteOut ==
    /\ pc = "wait"
    /\ Len(childOut) + Len(childErr) < MaxWrite
    /\ \E b \in Bytes :
        /\ childOut' = Append(childOut, b)
        /\ LET h == popen_stdout(stdout, stderr) IN
            IF h = <<>>
            THEN UNCHANGED <<fs, stdout, stderr>>
            ELSE /\ fs' = write(fs, h[1], b)
                 /\ stdout' = IF stdout = h
                              THEN <<[h[1] EXCEPT !.pos = @ + 1]>> ELSE stdout
                 /\ stderr' = IF stdout # h /\ stderr = h
                              THEN <<[h[1] EXCEPT !.pos = @ + 1]>> ELSE stderr
    /\ UNCHANGED <<argv, fs0, pc, args, stdin, childState, childArgv,
                   childStdin, childErr, returncode, failed, exitStatus>>

\* the child writes one byte to descriptor 2
ChildWriteErr ==
    /\ pc = "wait"
    /\ Len(childOut) + Len(childErr) < MaxWrite
    /\ \E b \in Bytes :
        /\ childErr' = Append(childErr, b)
        /\ LET h == popen_stderr(stdout, stderr) IN
            IF h = <<>>
            THEN UNCHANGED <<fs, stdout, stderr>>
            ELSE /\ fs' = write(fs, h[1], b)
                 /\ stderr' = IF stderr = h
                              THEN <<[h[1] EXCEPT !.pos = @ + 1]>> ELSE stderr
                 /\ stdout' = IF stderr # h /\ stdout = h
                              THEN <<[h[1] EXCEPT !.pos = @ + 1]>> ELSE stdout
    /\ UNCHANGED <<argv, fs0, pc, args, stdin, childState, childArgv,
                   childStdin, childOut, returncode, failed, exitStatus>>

\* line 32, the wait: the child exits with a status in 0..255
ChildExit ==
    /\ pc = "wait"
    /\ \E s \in {0, 7} :
        /\ returncode' = s
        /\ childState' = "exited"
    /\ pc' = "close_out"
    /\ UNCHANGED <<argv, fs0, fs, args, stdin, stdout, stderr, childArgv,
                   childStdin, childOut, childErr, failed, exitStatus>>

\* line 32, the wait: the child is killed by signal N, returncode is -N
ChildSignalled ==
    /\ pc = "wait"
    /\ \E sig \in {9} :
        /\ returncode' = -sig
        /\ childState' = "signalled"
    /\ pc' = "close_out"
    /\ UNCHANGED <<argv, fs0, fs, args, stdin, stdout, stderr, childArgv,
                   childStdin, childOut, childErr, failed, exitStatus>>

\* lines 34-35
CloseOut ==
    /\ pc = "close_out"
    /\ stdout' = Close(stdout)
    /\ pc' = "close_err"
    /\ UNCHANGED <<argv, fs0, fs, args, stdin, stderr, childState, childArgv,
                   childStdin, childOut, childErr, returncode, failed,
                   exitStatus>>

\* the error file left open
CloseErrSkipped ==
    /\ pc = "close_err"
    /\ pc' = "exit"
    /\ UNCHANGED <<argv, fs0, fs, args, stdin, stdout, stderr, childState,
                   childArgv, childStdin, childOut, childErr, returncode,
                   failed, exitStatus>>

\* lines 37-38
CloseErr ==
    /\ pc = "close_err"
    /\ stderr' = Close(stderr)
    /\ pc' = "exit"
    /\ UNCHANGED <<argv, fs0, fs, args, stdin, stdout, childState, childArgv,
                   childStdin, childOut, childErr, returncode, failed,
                   exitStatus>>

\* line 40
Exit ==
    /\ pc = "exit"
    /\ exitStatus' = sys_exit(returncode)
    /\ pc' = "done"
    /\ UNCHANGED <<argv, fs0, fs, args, stdin, stdout, stderr, childState,
                   childArgv, childStdin, childOut, childErr, returncode,
                   failed>>

Next ==
    \/ ParseArgs
    \/ OpenIn
    \/ OpenOut
    \/ OpenErr
    \/ Run
    \/ ChildWriteOut
    \/ ChildWriteErr
    \/ ChildExit
    \/ ChildSignalled
    \/ CloseOut
    \/ CloseErr
    \/ Exit

Spec == Init /\ [][Next]_vars

-----------------------------------------------------------------------------
(* The command line as the usage line reads it *)

\* index of COMMAND: the first token that is neither a flag, nor the value
\* of --in/--out/--err, nor the "--" separator; Len(a) + 1 or more when
\* there is none
RECURSIVE UsageCommand(_, _)
UsageCommand(a, i) ==
    IF i > Len(a) THEN i
    ELSE IF a[i] \in OptionStrings THEN UsageCommand(a, i + 2)
    ELSE IF a[i] \in DashTokens THEN UsageCommand(a, i + 1)
    ELSE IF a[i] = "--" THEN i + 1
    ELSE i

CommandMissing(a) == UsageCommand(a, 1) > Len(a)

\* the value the last flag `opt` before index k gives, None without one
RECURSIVE UsageFlag(_, _, _, _, _)
UsageFlag(a, opt, i, k, v) ==
    IF i >= k THEN v
    ELSE IF a[i] = opt THEN UsageFlag(a, opt, i + 2, k, a[i + 1])
    ELSE IF a[i] \in OptionStrings THEN UsageFlag(a, opt, i + 2, k, v)
    ELSE UsageFlag(a, opt, i + 1, k, v)

Terminated == childState \in {"exited", "signalled"}
Spawned == childState # "none"
OpenFailures == {"in", "out", "err"}
Truncated == File(TRUE, <<>>, FALSE)

\* some redirection file the command line names cannot be opened
SomeUnopenable ==
    \/ Truthy(args.in_file) /\ ~CanRead(fs0, args.in_file)
    \/ Truthy(args.out_file) /\ ~CanWrite(fs0, args.out_file)
    \/ Truthy(args.err_file) /\ ~CanWrite(fs0, args.err_file)

-----------------------------------------------------------------------------
(* Claims *)

\* C1: when the child was spawned and exited with status s, the tool ends
\* with exit status s, whatever --out and --err are.
InvC1 ==
    (pc = "done" /\ childState = "exited") => exitStatus = returncode

WitnessC1 ==
    /\ pc = "done"
    /\ childState = "exited"
    /\ returncode = 7
    /\ exitStatus = 7
    /\ Truthy(args.out_file)
    /\ Truthy(args.err_file)

\* C2: when --in FILE is given and FILE can be opened (and nothing else in
\* the environment fails), the child is spawned, receives FILE's exact
\* contents as its standard input, and the run ends with the child's status.
ClaimC2 ==
    (/\ pc = "done"
     /\ Truthy(args.in_file)
     /\ CanRead(fs0, args.in_file)
     /\ failed \notin {"out", "err", "launch"})
    => /\ Terminated
       /\ childStdin = <<fs0[args.in_file].data>>
       /\ exitStatus = sys_exit(returncode)

\* C3 as stated: when --out FILE is given and the child ran to completion,
\* FILE exists and holds exactly what the child wrote to standard output.
ClaimC3 ==
    (pc = "done" /\ Terminated /\ Truthy(args.out_file))
    => /\ fs[args.out_file].exists
       /\ fs[args.out_file].data = childOut

\* C3 as amended: the same, provided --err does not name the same file.
InvC3 ==
    (/\ pc = "done"
     /\ Terminated
     /\ Truthy(args.out_file)
     /\ args.err_file # args.out_file)
    => /\ fs[args.out_file].exists
       /\ fs[args.out_file].data = childOut

WitnessC3 ==
    /\ pc = "done"
    /\ Terminated
    /\ Truthy(args.out_file)
    /\ Truthy(args.err_file)
    /\ fs0[args.out_file].data # <<>>
    /\ childOut = <<>>
    /\ childErr # <<>>
    /\ fs[args.out_file] = Truncated

\* C4 as stated: when --err FILE is given and the child ran to completion,
\* FILE holds exactly what the child wrote to standard error, for every
\* choice of --out.
ClaimC4 ==
    (pc = "done" /\ Terminated /\ Truthy(args.err_file))
    => fs[args.err_file].data = childErr

\* C4 as amended: the same for every choice of --out other than the file
\* --err names.
InvC4 ==
    (/\ pc = "done"
     /\ Terminated
     /\ Truthy(args.err_file)
     /\ args.out_file # args.err_file)
    => /\ fs[args.err_file].exists
       /\ fs[args.err_file].data = childErr

WitnessC4 ==
    /\ pc = "done"
    /\ Terminated
    /\ Truthy(args.err_file)
    /\ Truthy(args.out_file)
    /\ Len(childErr) = 1
    /\ Len(childOut) = 1
    /\ fs[args.err_file].data = childErr

\* C5: the child is spawned with the absolute path of COMMAND followed by
\* every token after COMMAND, unmodified and in order, and the redirections
\* are those of the flags before COMMAND only.
ClaimC5 ==
    Spawned =>
        LET k == UsageCommand(argv, 1) IN
        /\ childArgv = <<absolute(argv[k])>> \o rest_from(argv, k + 1)
        /\ args.in_file = UsageFlag(argv, "--in", 1, k, None)
        /\ args.out_file = UsageFlag(argv, "--out", 1, k, None)
        /\ args.err_file = UsageFlag(argv, "--err", 1, k, None)

\* C6: a redirection file that cannot be opened makes the tool fail with a
\* non-zero exit status, and no child is spawned after a failed open.
InvC6 ==
    /\ failed \in OpenFailures
        => (pc = "done" /\ exitStatus # 0 /\ ~Spawned)
    /\ (SomeUnopenable /\ pc \notin {"parse", "in", "out", "err"})
        => failed \in OpenFailures

WitnessC6 ==
    /\ failed = "err"
    /\ Truthy(args.in_file)
    /\ Truthy(args.out_file)
    /\ pc = "done"

\* C7 as stated: when the tool terminates, on every exit path, no
\* redirection file handle it opened is still open.
ClaimC7 == pc = "done" => (~IsOpen(stdout) /\ ~IsOpen(stderr))

\* C7 as amended: on the normal path every handle is closed after the child
\* has terminated and before the exit; when a later open or the launch
\* fails, the handles opened so far are still open at the exit.
InvC7 ==
    /\ (pc = "done" /\ failed = "none") => (~IsOpen(stdout) /\ ~IsOpen(stderr))
    /\ pc = "wait" => /\ stdout # <<>> => IsOpen(stdout)
                      /\ stderr # <<>> => IsOpen(stderr)
    /\ (pc = "done" /\ failed \in {"err", "launch", "stdin"})
        => (Truthy(args.out_file) => IsOpen(stdout))
    /\ (pc = "done" /\ failed \in {"launch", "stdin"})
        => (Truthy(args.err_file) => IsOpen(stderr))

WitnessC7 ==
    /\ pc = "done"
    /\ failed = "none"
    /\ childState = "exited"
    /\ stdout # <<>>
    /\ stderr # <<>>
    /\ stdout[1].closed
    /\ stderr[1].closed

\* C8: when the child is killed by a signal, the exit status the caller of
\* the tool observes equals the status the tool obtained for the child.
ClaimC8 ==
    (pc = "done" /\ childState = "signalled") => exitStatus = returncode

\* C9 as stated: without COMMAND the tool exits non-zero from argument
\* parsing; no file is opened, created or truncated and no child is spawned.
ClaimC9 ==
    (CommandMissing(argv) /\ pc # "parse")
    => /\ pc = "done"
       /\ failed = "argparse"
       /\ exitStatus # 0
       /\ fs = fs0
       /\ stdout = <<>> /\ stderr = <<>>
       /\ ~Spawned

\* C9 as amended: without COMMAND the tool exits from argument parsing, with
\* status 2, or with status 0 when a help flag was given; no file is opened,
\* created or truncated and no child is spawned.
InvC9 ==
    (CommandMissing(argv) /\ pc # "parse")
    => /\ pc = "done"
       /\ failed = "argparse"
       /\ exitStatus \in {0, 2}
       /\ exitStatus = 0 => \E i \in 1..Len(argv) : argv[i] \in HelpStrings
       /\ fs = fs0
       /\ stdout = <<>> /\ stderr = <<>>
       /\ ~Spawned

WitnessC9 ==
    /\ pc = "done"
    /\ argv = <<"--out", "f">>
    /\ fs0["f"].data # <<>>
    /\ ~fs0["f"].denied
    /\ exitStatus = 2
    /\ fs = fs0

\* C10: the setup runs open --in, open --out, open --err, spawn in this
\* order, and a failing step leaves the effects of the earlier steps and
\* none of the later ones.
InvC10 ==
    /\ failed = "in" => (fs = fs0 /\ stdout = <<>> /\ stderr = <<>>)
    /\ failed = "out" => (fs = fs0 /\ stderr = <<>>)
    /\ failed = "err" =>
        /\ Truthy(args.out_file) => fs[args.out_file] = Truncated
        /\ fs[args.err_file] = fs0[args.err_file]
    /\ failed \in {"launch", "stdin"} =>
        /\ Truthy(args.out_file) => fs[args.out_file] = Truncated
        /\ Truthy(args.err_file) => fs[args.err_file] = Truncated
    /\ failed # "none" => ~Spawned
    /\ Spawned =>
        /\ Truthy(args.out_file) => stdout # <<>>
        /\ Truthy(args.err_file) => stderr # <<>>
    /\ stderr # <<>> => (Truthy(args.out_file) => stdout # <<>>)
    /\ stdout # <<>> => (Truthy(args.in_file) => stdin # <<>>)

WitnessC10 ==
    /\ pc = "done"
    /\ failed = "launch"
    /\ Truthy(args.out_file)
    /\ Truthy(args.err_file)
    /\ fs0[args.out_file].data # <<>>
    /\ fs[args.out_file] = Truncated
    /\ fs[args.err_file] = Truncated

====
